---------------------------- MODULE Spec2Model ----------------------------
(***************************************************************************)
(* A model of src/src/lib.rs: the alias-record encoder `encode` (with its  *)
(* helper `apple_date`) and the volume locator `find_volume`.              *)
(*                                                                         *)
(* Bytes are the integers 0..255 and a byte buffer is a sequence of them   *)
(* (index k of the sequence is byte offset k-1).  TLC's integers are 32    *)
(* bits wide and signed, so every u32 of the program is kept as two 16-bit *)
(* limbs [hi, lo] (value hi * 65536 + lo); an exact, unbounded number of   *)
(* seconds is the same record with hi allowed to exceed 65535.             *)
(***************************************************************************)
EXTENDS Integers, Sequences, FiniteSets, TLC

VARIABLES
  \* ---- encode (lib.rs 102-190)
  info,        \* the Info argument
  pc,          \* position inside encode
  total,       \* `total` (line 111)
  buf,         \* the Vec<u8> inside the Cursor (line 112)
  pos,         \* the Cursor's position
  i,           \* index of the next element of info.extra (loop of line 177)
  result,      \* what encode returned
  \* ---- find_volume (lib.rs 192-219)
  fs,          \* the filesystem: what fs::metadata yields for each path
  start,       \* the start path of the first call
  call,        \* 1: find_volume(start, stat(start)); 2: the call on its result
  fpc,         \* position inside find_volume
  last_dev,    \* `last_dev`
  last_ino,    \* `last_ino`
  last_path,   \* `last_path`
  reads,       \* the paths handed to fs::metadata by the current call, in order
  first,       \* what the first call returned
  second       \* what the second call returned

encVars == <<info, pc, total, buf, pos, i, result>>
fvVars  == <<fs, start, call, fpc, last_dev, last_ino, last_path, reads, first, second>>
vars    == <<info, pc, total, buf, pos, i, result,
             fs, start, call, fpc, last_dev, last_ino, last_path, reads, first, second>>

(***************************************************************************)
(* Bounds of the model.                                                    *)
(***************************************************************************)
MaxExtras   == 2    \* most elements of info.extra
MaxExtraLen == 3    \* longest small extra (the 65535-byte extra is separate)
MaxDepth    == 2    \* deepest start path (number of components under the top)
MaxDev      == 2    \* device ids are 1..MaxDev
MaxIno      == 2    \* inode ids are 1..MaxIno

(***************************************************************************)
(* Integer widths and byte order (byteorder::BigEndian, `as` casts).       *)
(***************************************************************************)
U16Max == 65535

Max(a, b) == IF a >= b THEN a ELSE b

\* `x as u16` for a non-negative x (line 118)
AsU16(x) == x % (U16Max + 1)

\* write_u16::<BigEndian>
U16BE(v) == <<v \div 256, v % 256>>

\* write_i16::<BigEndian>: two's complement
I16BE(v) == U16BE(IF v < 0 THEN v + U16Max + 1 ELSE v)

\* a u32 in limbs, and write_u32::<BigEndian>
U32(h, l) == [hi |-> h, lo |-> l]
U32BE(x)  == U16BE(x.hi) \o U16BE(x.lo)

\* vec![0u8; n]
Zeros(n) == [k \in 1..n |-> 0]

(***************************************************************************)
(* Cursor<Vec<u8>>: a write overwrites the bytes at the position and grows *)
(* the vector when it runs past the end.  encode only writes forward from  *)
(* position 0, so the position never lies beyond the end of the vector.    *)
(***************************************************************************)
CursorWrite(b, p, bytes) ==
  LET e == p + Len(bytes)
  IN  SubSeq(b, 1, p) \o bytes \o SubSeq(b, e + 1, Len(b))

(***************************************************************************)
(* apple_date (lines 95-100).  A SystemTime at or after UNIX_EPOCH is its  *)
(* Duration since the epoch, [secs, millis]: as_millis() = secs * 1000 +   *)
(* millis (sub-millisecond nanoseconds are dropped by as_millis).  The     *)
(* `expect` of line 98 asserts that no earlier time is passed.             *)
(*                                                                         *)
(* APPLE_EPOCH = -2082844800000 ms = -(31781 * 65536 + 45184) * 1000 ms.   *)
(* The f64 arithmetic is exact below 2^53 ms, `round` rounds half away     *)
(* from zero, and `as u32` saturates.                                      *)
(***************************************************************************)
APPLE_EPOCH_SECS_HI == 31781
APPLE_EPOCH_SECS_LO == 45184

\* (as_millis - APPLE_EPOCH) / 1000 : whole seconds (exact) and the millis left
SinceAppleEpoch(value) ==
  LET l == value.secs.lo + APPLE_EPOCH_SECS_LO
  IN  [secs   |-> U32(value.secs.hi + APPLE_EPOCH_SECS_HI + l \div (U16Max + 1),
                      l % (U16Max + 1)),
       millis |-> value.millis]

\* f64::round of secs + millis / 1000
RoundTrunc(x) == x.secs
Round(x) ==
  IF x.millis >= 500
  THEN LET l == x.secs.lo + 1
       IN  U32(x.secs.hi + l \div (U16Max + 1), l % (U16Max + 1))
  ELSE x.secs

\* `as u32` of a non-negative f64: saturating
AsU32(x) == IF x.hi > U16Max THEN U32(U16Max, U16Max) ELSE x

apple_date(value) == AsU32(Round(SinceAppleEpoch(value)))


(***************************************************************************)
(* The enums and their `as u16` / as_ref values (lines 28-60).             *)
(***************************************************************************)
TargetTypeCode(t) == IF t = "File" THEN 0 ELSE 1

VolumeTypeCode(t) ==
  CASE t = "Local"      -> 0
    [] t = "Network"    -> 1
    [] t = "Floppy400"  -> 2
    [] t = "Floppy800"  -> 3
    [] t = "Floppy1400" -> 4
    [] t = "Other"      -> 5

SignatureBytes(sig) ==
  CASE sig = "BD" -> <<66, 68>>
    [] sig = "H+" -> <<72, 43>>
    [] sig = "HX" -> <<72, 88>>

(***************************************************************************)
(* encode (lines 102-190).                                                 *)
(***************************************************************************)
base_length    == 150
trailer_length == 4
MaxVolumeName  == 27
MaxFileName    == 63
vol_attributes == 3330

\* the closure of line 107
ExtraLengthAlwaysPadded(e) == 4 + e.length + 1
ExtraLength(e) == 4 + e.length + (e.length % 2)

RECURSIVE SumExtraLength(_)
SumExtraLength(es) ==
  IF es = <<>> THEN 0 ELSE ExtraLength(Head(es)) + SumExtraLength(Tail(es))

\* lines 103-111
TotalLength(inf) == base_length + SumExtraLength(inf.extra) + trailer_length

\* line 118: the length field
TotalFieldNoBase(t) == U16BE(AsU16(t - base_length))
TotalField(t) == U16BE(AsU16(t))

\* lines 116-121: reserved word, total, version, target type
HeaderBytes(inf, t) ==
  Zeros(4) \o TotalField(t) \o U16BE(inf.version)
           \o U16BE(TargetTypeCode(inf.target.type_))

\* lines 124 and 143: the two limits
VolumeNameTooLongOffByOne(name) == Len(name) > MaxVolumeName + 1
VolumeNameTooLong(name) == Len(name) > MaxVolumeName
FileNameTooLong(name)   == Len(name) > MaxFileName

\* lines 131-135 and 149-152: length byte, name, zero padding.  vec![0u8; n]
\* with the usize subtraction below zero is never reached behind the checks.
NameBlockShortPadding(name, width) ==
  <<Len(name)>> \o name \o Zeros(width - 1 - Len(name))
NameBlock(name, width) == <<Len(name)>> \o name \o Zeros(width - Len(name))

\* lines 131-140
VolumeBytes(inf) ==
  NameBlock(inf.volume.name, MaxVolumeName)
    \o U32BE(apple_date(inf.volume.created))
    \o SignatureBytes(inf.volume.signature)
    \o U16BE(VolumeTypeCode(inf.volume.type_))
    \o U32BE(inf.parent.id)

\* lines 149-176
TargetBytes(inf) ==
  NameBlock(inf.target.filename, MaxFileName)
    \o U32BE(inf.target.id)
    \o U32BE(apple_date(inf.target.created))
    \o Zeros(4)                         \* file_type_name
    \o Zeros(4)                         \* file_creator_name
    \o I16BE(-1) \o I16BE(-1)           \* nlvl_from, nlvl_to
    \o U32BE(U32(0, vol_attributes))
    \o U16BE(0)                         \* vol_fs_id
    \o Zeros(10)                        \* reserved_space

\* lines 178-184: one iteration of the loop over info.extra
ExtraBytesPadEven(e) ==
  I16BE(e.type_) \o U16BE(e.length) \o e.data
    \o (IF e.length % 2 = 0 THEN <<0>> ELSE <<>>)
ExtraBytes(e) ==
  I16BE(e.type_) \o U16BE(e.length) \o e.data
    \o (IF e.length % 2 = 1 THEN <<0>> ELSE <<>>)

\* lines 187-188
TerminatorZeroTag == I16BE(0) \o U16BE(0)
Terminator == I16BE(-1) \o U16BE(0)

NoResult    == [status |-> "none", bytes |-> <<>>, message |-> ""]
Ok(bytes)   == [status |-> "Ok",   bytes |-> bytes, message |-> ""]
Err(msg)    == [status |-> "Err",  bytes |-> <<>>,  message |-> msg]

\* lines 103-121
EncodeBegin ==
  /\ pc = "begin"
  /\ total' = TotalLength(info)
  /\ buf' = CursorWrite(Zeros(TotalLength(info)), 0,
                        HeaderBytes(info, TotalLength(info)))
  /\ pos' = Len(HeaderBytes(info, TotalLength(info)))
  /\ pc' = "volume"
  /\ UNCHANGED <<info, i, result>>
  /\ UNCHANGED fvVars

\* lines 123-129: the early return drops the cursor and its buffer
EncodeVolumeReject ==
  /\ pc = "volume"
  /\ VolumeNameTooLong(info.volume.name)
  /\ result' = Err("Volume name is not longer than 27 chars")
  /\ buf' = <<>>
  /\ pos' = 0
  /\ pc' = "done"
  /\ UNCHANGED <<info, total, i>>
  /\ UNCHANGED fvVars

\* lines 131-140
EncodeVolume ==
  /\ pc = "volume"
  /\ ~VolumeNameTooLong(info.volume.name)
  /\ buf' = CursorWrite(buf, pos, VolumeBytes(info))
  /\ pos' = pos + Len(VolumeBytes(info))
  /\ pc' = "target"
  /\ UNCHANGED <<info, total, i, result>>
  /\ UNCHANGED fvVars

\* lines 142-148
EncodeTargetReject ==
  /\ pc = "target"
  /\ FileNameTooLong(info.target.filename)
  /\ result' = Err("File name is not longer than 63 chars")
  /\ buf' = <<>>
  /\ pos' = 0
  /\ pc' = "done"
  /\ UNCHANGED <<info, total, i>>
  /\ UNCHANGED fvVars

\* lines 149-176
EncodeTarget ==
  /\ pc = "target"
  /\ ~FileNameTooLong(info.target.filename)
  /\ buf' = CursorWrite(buf, pos, TargetBytes(info))
  /\ pos' = pos + Len(TargetBytes(info))
  /\ i' = 1
  /\ pc' = "extras"
  /\ UNCHANGED <<info, total, result>>
  /\ UNCHANGED fvVars

\* lines 177-185
EncodeExtra ==
  /\ pc = "extras"
  /\ i <= Len(info.extra)
  /\ buf' = CursorWrite(buf, pos, ExtraBytes(info.extra[i]))
  /\ pos' = pos + Len(ExtraBytes(info.extra[i]))
  /\ i' = i + 1
  /\ UNCHANGED <<info, pc, total, result>>
  /\ UNCHANGED fvVars

\* lines 187-189
EncodeFinish ==
  /\ pc = "extras"
  /\ i > Len(info.extra)
  /\ result' = Ok(CursorWrite(buf, pos, Terminator))
  /\ buf' = <<>>
  /\ pos' = 0
  /\ pc' = "done"
  /\ UNCHANGED <<info, total, i>>
  /\ UNCHANGED fvVars

(***************************************************************************)
(* The records handed to encode.  Names are strings of n bytes; a          *)
(* timestamp is a Duration since UNIX_EPOCH; an extra carries `length`     *)
(* bytes of data, as create (lines 288-333) and the test (lines 436-477)   *)
(* build it.                                                               *)
(***************************************************************************)
Name(base, n) == [k \in 1..n |-> base + k]
Data(n)       == [k \in 1..n |-> 1 + (k % 255)]

VolumeNames == {Name(32, n) : n \in {0, 10, MaxVolumeName, MaxVolumeName + 1}}
FileNames   == {Name(48, n) : n \in {0, 12, MaxFileName, MaxFileName + 1}}

Time(h, l, ms) == [secs |-> U32(h, l), millis |-> ms]
\* 1388686804000 ms and 1388686808000 ms: the timestamps of the test (422, 434)
TestVolumeCreated == Time(21189, 44500, 0)
TestTargetCreated == Time(21189, 44504, 0)
\* 2040-02-06T06:28:15Z: the last second a u32 of seconds since 1904 holds
LastSecond(ms)    == Time(33754, 20351, ms)

\* <<volume.created, target.created>>
TimePairs ==
  { <<TestVolumeCreated, TestTargetCreated>>,
    <<Time(0, 0, 499), Time(21189, 44504, 500)>>,
    <<LastSecond(499), LastSecond(0)>>,
    <<LastSecond(500), Time(40000, 0, 0)>> }

\* the fields encode copies without looking at them
Scalars ==
  { [type_ |-> "File", tid |-> U32(0, 20), pid |-> U32(0, 19),
     signature |-> "H+", vtype |-> "Other"],
    [type_ |-> "Directory", tid |-> U32(4660, 22136), pid |-> U32(65535, 65534),
     signature |-> "BD", vtype |-> "Network"] }

Extra(tag, n) == [type_ |-> tag, length |-> n, data |-> Data(n)]

\* the k-th extra carries tag base + k - 1: tags 14, 15, ... or -3, -2, ...
FirstTags == {14, -3}

ExtraSeqs(maxn, lens) ==
  UNION { { [k \in 1..n |-> Extra(t + k - 1, ls[k])] :
              t \in FirstTags, ls \in [1..n -> lens] } : n \in 0..maxn }

\* extras that take `total` to 65534, to 65536 and beyond
BigLens == {U16Max - 159, U16Max - 157, U16Max}

MkInfo(sc, vn, fnm, tp, ex) ==
  [version |-> 2,
   target  |-> [type_ |-> sc.type_, filename |-> fnm, id |-> sc.tid,
                created |-> tp[2]],
   volume  |-> [name |-> vn, created |-> tp[1], signature |-> sc.signature,
                type_ |-> sc.vtype],
   parent  |-> [id |-> sc.pid, name |-> Name(64, 11)],
   extra   |-> ex]

SmallInfos ==
  { MkInfo(sc, vn, fnm, tp, ex) :
      sc \in Scalars, vn \in VolumeNames, fnm \in FileNames, tp \in TimePairs,
      ex \in ExtraSeqs(MaxExtras, 0..MaxExtraLen) }

BigInfos ==
  { MkInfo(CHOOSE sc \in Scalars : sc.type_ = "File", Name(32, 10), Name(48, 12),
           <<TestVolumeCreated, TestTargetCreated>>,
           Append(ex, Extra(19, n))) :
      ex \in ExtraSeqs(1, 0..MaxExtraLen), n \in BigLens }

FvNone      == [status |-> "none", path |-> -1]
FvOk(path)  == [status |-> "Ok",   path |-> path]
FvErr       == [status |-> "Err",  path |-> -1]

FvIdle ==
  /\ fs = <<>>
  /\ start = 0
  /\ call = 0
  /\ fpc = "idle"
  /\ last_dev = 0
  /\ last_ino = 0
  /\ last_path = 0
  /\ reads = <<>>
  /\ first = FvNone
  /\ second = FvNone

Init ==
  /\ \/ info \in SmallInfos
     \/ info \in BigInfos
  /\ pc = "begin"
  /\ total = 0
  /\ buf = <<>>
  /\ pos = 0
  /\ i = 0
  /\ result = NoResult
  /\ FvIdle

Next ==
  \/ EncodeBegin
  \/ EncodeVolumeReject
  \/ EncodeVolume
  \/ EncodeTargetReject
  \/ EncodeTarget
  \/ EncodeExtra
  \/ EncodeFinish

Spec == Init /\ [][Next]_vars

(***************************************************************************)
(* find_volume (lines 192-219).                                            *)
(*                                                                         *)
(* A path is the number of components it has below the top of its chain:   *)
(* Path::parent() of path d > 0 is d - 1 and of path 0 ("/", or "" for a   *)
(* relative path) is None.  fs[d] is what fs::metadata(d) yields: ok       *)
(* (FALSE: an io::Error), dev and ino.  The filesystem does not change.    *)
(***************************************************************************)
HasParent(path) == path > 0
Parent(path)    == path - 1

Metadata == [ok : BOOLEAN, dev : 1..MaxDev, ino : 1..MaxIno]

\* lines 196-198; the caller holds the Metadata of the start path
FvBegin ==
  /\ fpc = "begin"
  /\ last_dev' = fs[start].dev
  /\ last_ino' = fs[start].ino
  /\ last_path' = start
  /\ fpc' = "loop"
  /\ UNCHANGED <<fs, start, call, reads, first, second>>
  /\ UNCHANGED encVars

FvReturn(r) ==
  /\ IF call = 1 THEN first' = r /\ UNCHANGED second
                 ELSE second' = r /\ UNCHANGED first
  /\ fpc' = "returned"

\* lines 215-217
FvNoParent ==
  /\ fpc = "loop"
  /\ ~HasParent(last_path)
  /\ FvReturn(FvOk(last_path))
  /\ UNCHANGED <<fs, start, call, last_dev, last_ino, last_path, reads>>
  /\ UNCHANGED encVars

\* line 202: fs::metadata(parent_path)? fails
FvStatFailSwallowed ==
  /\ fpc = "loop"
  /\ HasParent(last_path)
  /\ ~fs[Parent(last_path)].ok
  /\ reads' = Append(reads, Parent(last_path))
  /\ FvReturn(FvOk(last_path))
  /\ UNCHANGED <<fs, start, call, last_dev, last_ino, last_path>>
  /\ UNCHANGED encVars
FvStatFail ==
  /\ fpc = "loop"
  /\ HasParent(last_path)
  /\ ~fs[Parent(last_path)].ok
  /\ reads' = Append(reads, Parent(last_path))
  /\ FvReturn(FvErr)
  /\ UNCHANGED <<fs, start, call, last_dev, last_ino, last_path>>
  /\ UNCHANGED encVars

\* lines 202-206
FvDevDiffersReturnsParent ==
  /\ fpc = "loop"
  /\ HasParent(last_path)
  /\ fs[Parent(last_path)].ok
  /\ fs[Parent(last_path)].dev # last_dev
  /\ reads' = Append(reads, Parent(last_path))
  /\ FvReturn(FvOk(Parent(last_path)))
  /\ UNCHANGED <<fs, start, call, last_dev, last_ino, last_path>>
  /\ UNCHANGED encVars
FvDevDiffers ==
  /\ fpc = "loop"
  /\ HasParent(last_path)
  /\ fs[Parent(last_path)].ok
  /\ fs[Parent(last_path)].dev # last_dev
  /\ reads' = Append(reads, Parent(last_path))
  /\ FvReturn(FvOk(last_path))
  /\ UNCHANGED <<fs, start, call, last_dev, last_ino, last_path>>
  /\ UNCHANGED encVars

\* lines 202, 208-210
FvSameInodeAscends ==
  /\ fpc = "loop"
  /\ HasParent(last_path)
  /\ fs[Parent(last_path)].ok
  /\ fs[Parent(last_path)].dev = last_dev
  /\ fs[Parent(last_path)].ino = last_ino
  /\ reads' = Append(reads, Parent(last_path))
  /\ last_path' = Parent(last_path)
  /\ UNCHANGED <<fs, start, call, fpc, last_dev, last_ino, first, second>>
  /\ UNCHANGED encVars
FvSameInode ==
  /\ fpc = "loop"
  /\ HasParent(last_path)
  /\ fs[Parent(last_path)].ok
  /\ fs[Parent(last_path)].dev = last_dev
  /\ fs[Parent(last_path)].ino = last_ino
  /\ reads' = Append(reads, Parent(last_path))
  /\ FvReturn(FvOk(last_path))
  /\ UNCHANGED <<fs, start, call, last_dev, last_ino, last_path>>
  /\ UNCHANGED encVars

\* lines 202, 212-214
FvAscend ==
  /\ fpc = "loop"
  /\ HasParent(last_path)
  /\ fs[Parent(last_path)].ok
  /\ fs[Parent(last_path)].dev = last_dev
  /\ fs[Parent(last_path)].ino # last_ino
  /\ reads' = Append(reads, Parent(last_path))
  /\ last_dev' = fs[Parent(last_path)].dev
  /\ last_ino' = fs[Parent(last_path)].ino
  /\ last_path' = Parent(last_path)
  /\ UNCHANGED <<fs, start, call, fpc, first, second>>
  /\ UNCHANGED encVars

\* lines 196-198 again: find_volume(r, stat(r)) on the path r the first call
\* returned, on the same filesystem
FvAgain ==
  /\ fpc = "returned"
  /\ call = 1
  /\ first.status = "Ok"
  /\ call' = 2
  /\ last_dev' = fs[first.path].dev
  /\ last_ino' = fs[first.path].ino
  /\ last_path' = first.path
  /\ reads' = <<>>
  /\ fpc' = "loop"
  /\ UNCHANGED <<fs, start, first, second>>
  /\ UNCHANGED encVars

EncIdle ==
  /\ info = <<>>
  /\ pc = "idle"
  /\ total = 0
  /\ buf = <<>>
  /\ pos = 0
  /\ i = 0
  /\ result = NoResult

\* the start path exists (the caller read its Metadata); paths below it play
\* no part
InitFind ==
  /\ start \in 0..MaxDepth
  /\ fs \in [0..start -> Metadata]
  /\ fs[start].ok
  /\ call = 1
  /\ fpc = "begin"
  /\ last_dev = 0
  /\ last_ino = 0
  /\ last_path = 0
  /\ reads = <<>>
  /\ first = FvNone
  /\ second = FvNone
  /\ EncIdle

NextFind ==
  \/ FvBegin
  \/ FvNoParent
  \/ FvStatFail
  \/ FvDevDiffers
  \/ FvSameInode
  \/ FvAscend
  \/ FvAgain

SpecFind == InitFind /\ [][NextFind]_vars

(***************************************************************************)
(* Properties of encode.  What the record should encode to is computed     *)
(* here from the record alone, apart from the operators of encode.         *)
(***************************************************************************)
Returned == pc = "done"
Encoded  == pc = "done" /\ result.status = "Ok"
out      == result.bytes

\* byte offsets o .. o + n - 1 of a buffer
Bytes(b, o, n) == SubSeq(b, o + 1, o + n)

\* the big-endian unsigned number in the two bytes at offset o
WordAt(b, o) == b[o + 1] * 256 + b[o + 2]

ValidRecord(inf) ==
  /\ Len(inf.volume.name) <= 27
  /\ Len(inf.target.filename) <= 63
  /\ \A k \in 1..Len(inf.extra) : Len(inf.extra[k].data) = inf.extra[k].length

RECURSIVE PaddedSum(_)
PaddedSum(es) ==
  IF es = <<>> THEN 0
  ELSE 4 + Head(es).length + (Head(es).length % 2) + PaddedSum(Tail(es))

ExpectedLength(inf) == 150 + PaddedSum(inf.extra) + 4

\* where the k-th extra should start (k = Len + 1: the terminator)
ExtraOffset(inf, k) == 150 + PaddedSum(SubSeq(inf.extra, 1, k - 1))

\* C1: for every valid record, encode returns a byte sequence of exactly
\* 150 + sum over the extras of (4 + length + length mod 2) + 4 bytes.
C1_EncodedLength ==
  (Returned /\ ValidRecord(info)) =>
     /\ result.status = "Ok"
     /\ Len(out) = ExpectedLength(info)

C1_Witness ==
  /\ Encoded
  /\ ValidRecord(info)
  /\ Len(info.extra) = 2
  /\ info.extra[1].length = 3
  /\ info.extra[2].length = 2
  /\ Len(out) = 150 + (4 + 3 + 1) + (4 + 2) + 4

\* C2 as claimed: for every valid record, the 2-byte big-endian field at
\* offsets 4..5 equals the total length of the output.
C2_TotalFieldIsLength ==
  (Encoded /\ ValidRecord(info)) => WordAt(out, 4) = ExpectedLength(info)

\* C2 amended: for every valid record whose total length is below 65536 the
\* field at offsets 4..5 equals the total length of the output; for a longer
\* record the field holds the total length modulo 65536.
C2_TotalFieldWraps ==
  (Encoded /\ ValidRecord(info)) =>
     /\ ExpectedLength(info) < 65536 => WordAt(out, 4) = ExpectedLength(info)
     /\ ExpectedLength(info) >= 65536 =>
          WordAt(out, 4) = ExpectedLength(info) - 65536

C2_Witness ==
  /\ Encoded
  /\ ValidRecord(info)
  /\ Len(info.extra) = 2
  /\ Len(out) = 168
  /\ Bytes(out, 4, 2) = <<0, 168>>

\* C3: a volume name of 28 bytes or more, or a target filename of 64 bytes
\* or more, makes encode return an error and no bytes; a record with both
\* names within the limits is not rejected.
C3_NameLimits ==
  Returned =>
     /\ (Len(info.volume.name) >= 28 \/ Len(info.target.filename) >= 64) =>
          (result.status = "Err" /\ out = <<>>)
     /\ (Len(info.volume.name) <= 27 /\ Len(info.target.filename) <= 63) =>
          (result.status = "Ok" /\ Len(out) >= 150)

C3_Witness ==
  /\ Returned
  /\ Len(info.volume.name) = 27
  /\ Len(info.target.filename) = 64
  /\ result.status = "Err"
  /\ out = <<>>

\* C4: every byte sequence encode returns ends with FF FF 00 00, whatever the
\* number of extras, and these four bytes directly follow the last extra.
C4_TerminatorLast ==
  Encoded =>
     /\ Len(out) >= 4
     /\ Bytes(out, Len(out) - 4, 4) = <<255, 255, 0, 0>>
     /\ Len(out) - 4 = ExtraOffset(info, Len(info.extra) + 1)

C4_Witness ==
  /\ Encoded
  /\ Len(info.extra) = 2
  /\ info.extra[2].length = 1
  /\ Bytes(out, Len(out) - 6, 6) = <<2, 0, 255, 255, 0, 0>>

\* C5: in the output every extra is its tag, its length and its data,
\* followed by one zero byte when the length is odd and by nothing when it is
\* even; so every extra and the terminator start at an even offset.
C5_ExtraPadding ==
  Encoded =>
     /\ \A k \in 1..Len(info.extra) :
          LET e == info.extra[k]
              o == ExtraOffset(info, k)
              n == ExtraOffset(info, k + 1)
          IN  /\ o % 2 = 0
              /\ Bytes(out, o, 4) = I16BE(e.type_) \o U16BE(e.length)
              /\ Bytes(out, o + 4, e.length) = e.data
              /\ e.length % 2 = 1 => (n = o + 4 + e.length + 1 /\ out[n] = 0)
              /\ e.length % 2 = 0 => n = o + 4 + e.length
     /\ ExtraOffset(info, Len(info.extra) + 1) % 2 = 0
     /\ Bytes(out, ExtraOffset(info, Len(info.extra) + 1), 4) = <<255, 255, 0, 0>>

C5_Witness ==
  /\ Encoded
  /\ Len(info.extra) = 2
  /\ info.extra[1].length = 1
  /\ info.extra[2].length = 2
  /\ Bytes(out, 150, 12) = <<0, 14, 0, 1, 2, 0, 0, 15, 0, 2, 2, 3>>

\* round((t - APPLE_EPOCH) / 1000), exactly, for t = secs * 1000 + millis
ExactSeconds(t) ==
  LET l == t.secs.lo + 45184 + (IF 2 * t.millis >= 1000 THEN 1 ELSE 0)
  IN  [hi |-> t.secs.hi + 31781 + l \div 65536, lo |-> l % 65536]

\* the big-endian u32 in the four bytes at offset o
LongAt(b, o) == [hi |-> WordAt(b, o), lo |-> WordAt(b, o + 2)]

\* C6 as claimed: both dates written are round((t - APPLE_EPOCH) / 1000),
\* for every timestamp the record carries.
C6_DatesAreRounded ==
  Encoded =>
     /\ LongAt(out, 38)  = ExactSeconds(info.volume.created)
     /\ LongAt(out, 118) = ExactSeconds(info.target.created)

\* C6 amended: both dates written are round((t - APPLE_EPOCH) / 1000) for
\* every timestamp at or after the Unix epoch whose rounded value is at most
\* 4294967295; for a later timestamp the value written is 4294967295.
C6_DatesAreRoundedOrSaturated ==
  Encoded =>
     \A f \in { <<38, info.volume.created>>, <<118, info.target.created>> } :
        /\ ExactSeconds(f[2]).hi <= 65535 => LongAt(out, f[1]) = ExactSeconds(f[2])
        /\ ExactSeconds(f[2]).hi > 65535 =>
             LongAt(out, f[1]) = [hi |-> 65535, lo |-> 65535]

C6_Witness ==
  /\ Encoded
  /\ info.volume.created = Time(0, 0, 499)
  /\ info.target.created = Time(21189, 44504, 500)
  /\ Bytes(out, 38, 4)  = <<124, 37, 176, 128>>
  /\ Bytes(out, 118, 4) = <<206, 235, 94, 89>>

\* C7: the first 150 bytes are the fixed fields at fixed offsets: the volume
\* name block is the 28 bytes at 10..37, the filename block the 64 bytes at
\* 50..113, whatever the lengths of the names, and the first extra (or the
\* terminator) starts at offset 150.
C7_FixedLayout ==
  (Returned /\ ValidRecord(info)) =>
     LET vn == info.volume.name
         fn == info.target.filename
     IN  /\ result.status = "Ok"
         /\ Bytes(out, 0, 4) = <<0, 0, 0, 0>>
         /\ WordAt(out, 6) = info.version
         /\ WordAt(out, 8) = (IF info.target.type_ = "Directory" THEN 1 ELSE 0)
         /\ out[10 + 1] = Len(vn)
         /\ Bytes(out, 11, Len(vn)) = vn
         /\ \A o \in (11 + Len(vn))..37 : out[o + 1] = 0
         /\ Bytes(out, 42, 2) =
              (IF info.volume.signature = "H+" THEN <<72, 43>> ELSE <<66, 68>>)
         /\ WordAt(out, 44) = (IF info.volume.type_ = "Other" THEN 5 ELSE 1)
         /\ LongAt(out, 46) = info.parent.id
         /\ out[50 + 1] = Len(fn)
         /\ Bytes(out, 51, Len(fn)) = fn
         /\ \A o \in (51 + Len(fn))..113 : out[o + 1] = 0
         /\ LongAt(out, 114) = info.target.id
         /\ Bytes(out, 122, 8) = <<0, 0, 0, 0, 0, 0, 0, 0>>
         /\ Bytes(out, 130, 4) = <<255, 255, 255, 255>>
         /\ Bytes(out, 134, 4) = <<0, 0, 13, 2>>
         /\ Bytes(out, 138, 12) = <<0, 0, 0, 0, 0, 0, 0, 0, 0, 0, 0, 0>>
         /\ Bytes(out, 150, 4) =
              (IF info.extra = <<>> THEN <<255, 255, 0, 0>>
               ELSE I16BE(info.extra[1].type_) \o U16BE(info.extra[1].length))

C7_Witness ==
  /\ Encoded
  /\ Len(info.volume.name) = 27
  /\ Len(info.target.filename) = 12
  /\ Len(info.extra) = 1
  /\ out[37 + 1] = 32 + 27
  /\ Bytes(out, 62, 2) = <<60, 0>>
  /\ Bytes(out, 150, 4) = <<255, 253, 0, 3>>

(***************************************************************************)
(* Properties of find_volume, stated on the filesystem fs alone.           *)
(***************************************************************************)
FirstReturned  == call = 1 /\ fpc = "returned"
SecondReturned == call = 2 /\ fpc = "returned"

\* a stop condition holds at path q
StopsAt(q) ==
  \/ q = 0
  \/ fs[q - 1].dev # fs[q].dev
  \/ fs[q - 1].ino = fs[q].ino

\* the walk from the start path gets as far as path q: below q no stop
\* condition held and every parent could be read
Reaches(q) == \A p \in (q + 1)..start : fs[p - 1].ok /\ ~StopsAt(p)

\* the paths q, q - 1, ..., down to r, in this order
Descending(q, r) == [k \in 1..(q - r + 1) |-> q - k + 1]

\* C8: when find_volume(p, stat(p)) returns path r, find_volume(r, stat(r))
\* on the same filesystem returns r.
C8_Idempotent ==
  SecondReturned => (first.status = "Ok" /\ second = first)

C8_Witness ==
  /\ SecondReturned
  /\ start = 2
  /\ first = FvOk(1)
  /\ second = FvOk(1)
  /\ reads = <<0>>

\* C9: when find_volume succeeds it returns the nearest path of the chain
\* start, parent(start), ... at which a stop condition holds (no parent, the
\* parent on another device, or the parent with the same inode), and every
\* path from the start to the returned one is on the device of the start.
C9_NearestStop ==
  (FirstReturned /\ first.status = "Ok") =>
     /\ first.path \in 0..start
     /\ StopsAt(first.path)
     /\ \A q \in (first.path + 1)..start : ~StopsAt(q)
     /\ \A q \in first.path..start : fs[q].dev = fs[start].dev

C9_Witness ==
  /\ FirstReturned
  /\ start = 2
  /\ first = FvOk(1)
  /\ fs[0].ok
  /\ fs[0].dev = fs[1].dev
  /\ fs[0].ino = fs[1].ino
  /\ fs[1].ino # fs[2].ino

\* C10: a failed read of an ancestor that the walk reaches before any stop
\* condition makes find_volume return the error and no path, each ancestor
\* having been read once; when the walk stops at a path, no ancestor above
\* the parent it examined there is read, so find_volume succeeds whether or
\* not those ancestors can be read.
C10_ReadFailure ==
  FirstReturned =>
     \A q \in 0..start :
        /\ (Reaches(q) /\ q > 0 /\ ~fs[q - 1].ok) =>
              /\ first = FvErr
              /\ reads = Descending(start - 1, q - 1)
        /\ (Reaches(q) /\ StopsAt(q) /\ (q > 0 => fs[q - 1].ok)) =>
              /\ first = FvOk(q)
              /\ reads = Descending(start - 1, Max(q - 1, 0))

C10_Witness ==
  /\ FirstReturned
  /\ start = 2
  /\ fs[1].ok
  /\ ~fs[0].ok
  /\ first = FvErr
  /\ reads = <<1, 0>>

\* the other case of C10: the walk stops below an ancestor that cannot be read
C10_WitnessUnreadAncestor ==
  /\ FirstReturned
  /\ start = 2
  /\ ~fs[0].ok
  /\ first = FvOk(2)
  /\ reads = <<1>>

=============================================================================
